---- MODULE Spec2Model ----
(***************************************************************************)
(* Draft lifecycle of the email-automation review surface.                 *)
(*                                                                         *)
(* The store is the SQLite database shared by the request handlers:        *)
(*   draft_responses        -> drafts                                      *)
(*   draft_versions         -> versions                                    *)
(*   draft_approval_history -> history                                     *)
(* The handlers are PATCH /api/drafts/[id] (approve, reject, edit, sent,    *)
(* rate, save_version, restore_version) and POST /api/drafts/[id]/ai-edit   *)
(* (the endpoint that applies an AI edit to a draft).                      *)
(*                                                                         *)
(* Every handler is a list of SQL statements.  Each statement is one       *)
(* autocommitted step (no handler opens a transaction).  Spec runs each    *)
(* handler as one action (one server process, synchronous driver) on       *)
(* requests that address the existing draft; SpecAny also offers requests  *)
(* for an id without a draft; SpecConc runs the same statements one at a   *)
(* time for several processes that share the store.                        *)
(*                                                                         *)
(* SpecReview adds the rest of the review surface: the AI-edit queue       *)
(* (enqueue, poll, the worker that resolves jobs), the Slack notification  *)
(* file and PATCH /api/imessages.  SpecPipeline is the ingestion side      *)
(* (normalize, deduplicate, create drafts behind the rate limiter) and     *)
(* SpecScore the priority scorer; the scripts behind these two are not     *)
(* part of the sources, so their steps follow the design document.         *)
(*                                                                         *)
(* SpecMissing offers the history-writing actions for any id on the store  *)
(* as the driver opens it; SpecFault is Spec with version inserts that the *)
(* store may refuse.  SpecEmails is POST /api/emails-db on the inbox.      *)
(* SpecPage and SpecAiPage are the drafts page in the browser: its action  *)
(* buttons over the draft it shows, and handleAiEdit with its polling.     *)
(* SpecRun is one run of the drafting batch under the per-run cap (design  *)
(* document).                                                              *)
(***************************************************************************)
EXTENDS Integers, Sequences, FiniteSets, Bags, TLC

\* ------------------------------------------------------------------ bounds
MaxVersions == 3      \* save_version / AI edit are offered while total_versions < MaxVersions
MaxHistory == 4       \* logging operations are offered while history has fewer rows

\* ------------------------------------------------------------------ values
NULL == "NULL"                        \* SQL NULL in a text column
NULLINT == -1                         \* SQL NULL in an integer column
SET == "set"                          \* a timestamp column that has been written (now)
DraftIds == {1, 2}                    \* ids a request may address; only draft 1 exists
Generated == "g0"                     \* the generation output the draft was created with
Texts == {"", "t1", "t2"}             \* texts a request may carry ("" is the empty string)
NaNScore == 99                        \* a score that is no number (the JSON string "high"): NaN in a comparison
Scores == {0, 1, 5, 6, NaNScore}      \* scores a rate request may carry
Procs == {1, 2}                       \* processes sharing the store in SpecConc

VARIABLES
  drafts,       \* draft_responses: id -> row
  versions,     \* draft_versions: rows in insertion (rowid) order
  history,      \* draft_approval_history: the bag of its rows (draft_id, action)
  foreignKeys,  \* whether the connection enforces FOREIGN KEY clauses
  procs,        \* SpecConc: per process, the request being served and its locals
  response,     \* the last response returned by a handler
  okOps,        \* per draft id: responses with success = true that changed the store
  queue,        \* ai_edit_queue: rows in id order
  notifyFile,   \* data/slack_notify.json: the notification waiting to be posted to Slack
  imessage_drafts,  \* imessage_drafts: id -> row
  polled,       \* the last response of the AI-edit queue endpoint
  served,       \* SpecReview: requests served so far
  emails,       \* emails: id -> row
  now,          \* the wall clock, in minutes
  scored,       \* SpecScore: the scorer's input signals and its output
  page,         \* the drafts page in the user's browser: its React state
  run           \* SpecRun: one invocation of the drafting batch and its counters

\* the state written by the review surface besides the draft tables
review == <<queue, notifyFile, imessage_drafts, polled, served>>

\* the state written by the ingestion pipeline
pipeline == <<emails, now, scored>>

vars ==
  <<drafts, versions, history, foreignKeys, procs, response, okOps, review, pipeline, page,
    run>>

\* schema.sql draft_responses + the columns added by the approval/version migrations
NewDraft ==
  [ email_id |-> 1, created_at |-> 0, draft_text |-> Generated, edited_text |-> NULL, status |-> "pending",
    approved_at |-> NULL, rejected_at |-> NULL, sent_at |-> NULL, sent_via |-> NULL,
    feedback_score |-> NULLINT, current_version |-> 1, total_versions |-> 1 ]

\* `edited_text || draft_text`: NULL and the empty string are falsy
Live(row) ==
  IF row.edited_text = NULL \/ row.edited_text = "" THEN row.draft_text ELSE row.edited_text

Db == [drafts |-> drafts, versions |-> versions, history |-> history, fk |-> foreignKeys,
       notify |-> notifyFile]

Idle == [op |-> "idle", id |-> 0, text |-> NULL, score |-> 0, version |-> 0,
         step |-> 0, cur_text |-> NULL, cur_tv |-> 0, found |-> 0, insert_fails |-> FALSE]

Request(op, id, text, score, version) ==
  [op |-> op, id |-> id, text |-> text, score |-> score, version |-> version,
   step |-> 1, cur_text |-> NULL, cur_tv |-> 0, found |-> 0, insert_fails |-> FALSE]

\* result of one statement: code 0 = continue with the next statement,
\* otherwise the HTTP status the handler returns
Res(db, rq, code) == [db |-> db, rq |-> rq, code |-> code]

\* SET col = value, ...: the named columns change, the others keep their value
SetCols(row, cols) == [c \in DOMAIN row |-> IF c \in DOMAIN cols THEN cols[c] ELSE row[c]]

\* UPDATE draft_responses SET ... WHERE id = ?  (no row: nothing happens)
UpdateDraft(db, id, cols) ==
  IF id \in DOMAIN db.drafts THEN [db EXCEPT !.drafts[id] = SetCols(@, cols)] ELSE db

\* variant: the history table has no FOREIGN KEY to the draft
InsertHistoryNoKey(db, rq, action) ==
  Res([db EXCEPT !.history = @ (+) SetToBag({[draft_id |-> rq.id, action |-> action]})],
      rq, 200)

\* INSERT INTO draft_approval_history; the FOREIGN KEY (draft_id) makes the
\* insert throw when it is enforced and the draft does not exist (caught: 500)
InsertHistory(db, rq, action) ==
  IF db.fk /\ rq.id \notin DOMAIN db.drafts
  THEN Res(db, rq, 500)
  ELSE Res([db EXCEPT !.history = @ (+) SetToBag({[draft_id |-> rq.id, action |-> action]})],
           rq, 200)

\* ------------------------------------------------------- PATCH statements
\* Each handler is given as the statement it runs at rq.step.

\* case 'approve'
ApproveCols == [approved_at |-> SET, status |-> "approved"]

ApproveStmt(db, rq) ==
  IF rq.step = 1
  THEN Res(UpdateDraft(db, rq.id, ApproveCols), rq, 0)
  ELSE InsertHistory(db, rq, "approved")

\* case 'reject'
RejectCols == [rejected_at |-> SET, status |-> "rejected"]

RejectStmt(db, rq) ==
  IF rq.step = 1
  THEN Res(UpdateDraft(db, rq.id, RejectCols), rq, 0)
  ELSE InsertHistory(db, rq, "rejected")

\* variant: an edit moves the draft to the status 'edited'
EditStmtSetsStatus(db, rq) ==
  IF rq.step = 1
  THEN Res(UpdateDraft(db, rq.id, [edited_text |-> rq.text, status |-> "edited"]), rq, 0)
  ELSE InsertHistory(db, rq, "edited")

\* case 'edit'
EditStmt(db, rq) ==
  IF rq.step = 1
  THEN Res(UpdateDraft(db, rq.id, [edited_text |-> rq.text]), rq, 0)
  ELSE InsertHistory(db, rq, "edited")

\* variant: marking a draft as sent also pushes it to Slack
SentStmtNotifies(db, rq) ==
  IF rq.step = 1
  THEN Res([UpdateDraft(db, rq.id, [sent_at |-> SET, sent_via |-> "manual", status |-> "sent"])
              EXCEPT !.notify = [channel |-> "exec-approvals", queue_id |-> 0]], rq, 0)
  ELSE InsertHistory(db, rq, "sent")

\* case 'sent': SET sent_at = ?, sent_via = ?, status = 'sent'  (data.via || 'manual')
SentCols == [sent_at |-> SET, sent_via |-> "manual", status |-> "sent"]

SentStmt(db, rq) ==
  IF rq.step = 1
  THEN Res(UpdateDraft(db, rq.id, SentCols), rq, 0)
  ELSE InsertHistory(db, rq, "sent")

\* case 'rate': if (data.score < 1 || data.score > 5) return 400
\* (both comparisons are false when the score converts to NaN)
ScoreRejected(score) == score # NaNScore /\ (score < 1 \/ score > 5)

RateStmt(db, rq) ==
  IF rq.step = 1
  THEN IF ScoreRejected(rq.score)
       THEN Res(db, rq, 400)
       ELSE Res(UpdateDraft(db, rq.id, [feedback_score |-> rq.score]), rq, 0)
  ELSE InsertHistory(db, rq, "rated")

\* variant: the SELECT reads the live text, COALESCE(edited_text, draft_text)
SelectLiveDraft(db, rq) ==
  IF rq.id \in DOMAIN db.drafts
  THEN [rq EXCEPT !.found = 1, !.cur_text = Live(db.drafts[rq.id]),
                  !.cur_tv = db.drafts[rq.id].total_versions]
  ELSE [rq EXCEPT !.found = 0]

\* SELECT draft_text, model_used, total_versions FROM draft_responses WHERE id = ?
SelectCurrentDraft(db, rq) ==
  IF rq.id \in DOMAIN db.drafts
  THEN [rq EXCEPT !.found = 1, !.cur_text = db.drafts[rq.id].draft_text,
                  !.cur_tv = db.drafts[rq.id].total_versions]
  ELSE [rq EXCEPT !.found = 0]

\* variant: the snapshot is numbered as the version that follows it
NewVersionNumNext(tv) == IF tv = NULLINT \/ tv = 0 THEN 1 ELSE tv + 1

\* (currentDraft.total_versions || 1)
NewVersionNum(tv) == IF tv = NULLINT \/ tv = 0 THEN 1 ELSE tv

\* variant: an AI edit stores the text it applies in the version row
SnapshotTextNew(rq) == IF rq.text # NULL THEN rq.text ELSE rq.cur_text

\* the text written to the draft_versions row: currentDraft.draft_text
SnapshotText(rq) == rq.cur_text

\* INSERT INTO draft_versions (draft_id, version_number, draft_text, ..., created_by, ...)
InsertVersion(db, rq, by) ==
  [db EXCEPT !.versions = Append(@, [draft_id |-> rq.id,
                                     version_number |-> NewVersionNum(rq.cur_tv),
                                     draft_text |-> SnapshotText(rq),
                                     created_by |-> by])]

\* total_versions = total_versions + 1, evaluated by the store on the row
IncrTotalVersions(tv) == tv + 1

\* case 'save_version'
SaveVersionStmt(db, rq) ==
  CASE rq.step = 1 ->
         LET r == SelectCurrentDraft(db, rq)
         IN  IF r.found = 1 THEN Res(db, r, 0) ELSE Res(db, r, 200)
    [] rq.step = 2 ->                          \* a refused INSERT throws: catch, 500
         IF rq.insert_fails THEN Res(db, rq, 500)
         ELSE Res(InsertVersion(db, rq, "user"), rq, 0)
    [] OTHER ->
         Res(UpdateDraft(db, rq.id,
               [total_versions |-> IncrTotalVersions(db.drafts[rq.id].total_versions)]),
             rq, 200)

\* SELECT * FROM draft_versions WHERE draft_id = ? AND version_number = ?  (.get: first row)
VersionRows(vs, id, v) ==
  {i \in 1..Len(vs) : vs[i].draft_id = id /\ vs[i].version_number = v}

FirstVersion(vs, id, v) ==
  vs[CHOOSE i \in VersionRows(vs, id, v) : \A j \in VersionRows(vs, id, v) : i <= j]

\* variant: the restore rewinds both counters to the restored version
RestoreColsRewind(text, v) ==
  [draft_text |-> text, current_version |-> v, total_versions |-> v]

\* SET draft_text = ?, current_version = ?
RestoreCols(text, v) == [draft_text |-> text, current_version |-> v]

\* variant: the restore drops the versions that follow the restored one
RestoreVersionStmtTruncates(db, rq) ==
  CASE rq.step = 1 ->
         IF VersionRows(db.versions, rq.id, rq.version) = {}
         THEN Res(db, rq, 404)
         ELSE Res(db, [rq EXCEPT !.found = 1,
                          !.cur_text = FirstVersion(db.versions, rq.id, rq.version).draft_text],
                  0)
    [] rq.step = 2 ->
         Res([UpdateDraft(db, rq.id, [draft_text |-> rq.cur_text, current_version |-> rq.version])
                EXCEPT !.versions = SelectSeq(@, LAMBDA r : r.version_number <= rq.version)],
             rq, 0)
    [] OTHER -> InsertHistory(db, rq, "restored")

\* variant: the restore does not look the version up before it writes
RestoreVersionStmtNoCheck(db, rq) ==
  CASE rq.step = 1 ->
         IF VersionRows(db.versions, rq.id, rq.version) = {}
         THEN Res(db, [rq EXCEPT !.found = 0, !.cur_text = NULL], 0)
         ELSE Res(db, [rq EXCEPT !.found = 1,
                          !.cur_text = FirstVersion(db.versions, rq.id, rq.version).draft_text],
                  0)
    [] rq.step = 2 ->
         Res(UpdateDraft(db, rq.id, RestoreCols(rq.cur_text, rq.version)), rq, 0)
    [] OTHER -> InsertHistory(db, rq, "restored")

\* case 'restore_version'
RestoreVersionStmt(db, rq) ==
  CASE rq.step = 1 ->
         IF VersionRows(db.versions, rq.id, rq.version) = {}
         THEN Res(db, rq, 404)
         ELSE Res(db, [rq EXCEPT !.found = 1,
                          !.cur_text = FirstVersion(db.versions, rq.id, rq.version).draft_text],
                  0)
    [] rq.step = 2 ->
         Res(UpdateDraft(db, rq.id, RestoreCols(rq.cur_text, rq.version)), rq, 0)
    [] OTHER -> InsertHistory(db, rq, "restored")

\* ------------------------------------------- POST ai-edit (apply) statements
\* SET edited_text = ?, model_used = ?, total_versions = COALESCE(total_versions, 1) + 1
AiEditCols(row, text) ==
  [edited_text |-> text,
   total_versions |-> IncrTotalVersions(IF row.total_versions = NULLINT THEN 1
                                        ELSE row.total_versions)]

\* the INSERT INTO draft_versions runs inside try { } catch (e) { continue anyway }:
\* when the store refuses it (rq.insert_fails) the handler goes on without the row
AiEditStmt(db, rq) ==
  CASE rq.step = 1 ->
         IF rq.text = ""                       \* if (!newDraftText) return 400
         THEN Res(db, rq, 400)
         ELSE LET r == SelectCurrentDraft(db, rq)
              IN  IF r.found = 1 THEN Res(db, r, 0) ELSE Res(db, r, 404)
    [] rq.step = 2 ->
         IF rq.insert_fails THEN Res(db, rq, 0)
         ELSE Res(InsertVersion(db, rq, "ai-edit"), rq, 0)
    [] rq.step = 3 -> Res(UpdateDraft(db, rq.id, AiEditCols(db.drafts[rq.id], rq.text)), rq, 0)
    [] OTHER -> InsertHistory(db, rq, "ai_edited")

\* ------------------------------------------------------------ dispatch
\* switch (action) of PATCH, and the ai-edit POST
Stmt(db, rq) ==
  CASE rq.op = "approve" -> ApproveStmt(db, rq)
    [] rq.op = "reject" -> RejectStmt(db, rq)
    [] rq.op = "edit" -> EditStmt(db, rq)
    [] rq.op = "sent" -> SentStmt(db, rq)
    [] rq.op = "rate" -> RateStmt(db, rq)
    [] rq.op = "save_version" -> SaveVersionStmt(db, rq)
    [] rq.op = "restore_version" -> RestoreVersionStmt(db, rq)
    [] rq.op = "ai_edit" -> AiEditStmt(db, rq)
    [] OTHER -> Res(db, rq, 400)               \* default: Unknown action

\* one statement, then the position moves on
StepOnce(db, rq) ==
  LET r == Stmt(db, rq) IN [r EXCEPT !.rq.step = rq.step + 1]

\* the whole handler: statements in order until it returns
RECURSIVE Run(_, _)
Run(db, rq) ==
  LET r == StepOnce(db, rq) IN IF r.code # 0 THEN r ELSE Run(r.db, r.rq)

\* schema.sql emails: the columns the model reads
\* (updated_at DEFAULT CURRENT_TIMESTAMP: AtInsert until a handler sets it)
AtInsert == "created"

NewEmail ==
  [subject |-> "Hello", from_email |-> "alice", received_at |-> 0, is_unread |-> TRUE,
   updated_at |-> AtInsert]

\* nothing scored yet
Unscored == [signals |-> {}, score |-> -1, category |-> NULL]

\* --------------------------------------------- iMessage drafts (PATCH)
\* imessage_drafts row as the iMessage drafter creates it
NewImessageDraft ==
  [draft_text |-> "m0", status |-> "pending",
   approved_at |-> NULL, rejected_at |-> NULL, sent_at |-> NULL]

\* data/slack_notify.json does not exist yet
NoNotification == [channel |-> NULL, queue_id |-> 0]

\* useState initial values of DraftsPage: no draft selected, nothing loading;
\* attempts and timer are the locals of handleAiEdit (timer: a setTimeout is pending)
NoPage ==
  [selected |-> FALSE, status |-> NULL, sent_at |-> NULL, actionLoading |-> FALSE,
   aiLoading |-> FALSE, attempts |-> 0, queueId |-> 0, timer |-> FALSE]

\* no batch started
NoRun ==
  [started |-> FALSE, max_drafts_per_run |-> 0, batch |-> 0, processed |-> 0,
   generated |-> 0, failed |-> 0, skipped |-> 0]

\* no poll answered yet
NoPoll == [code |-> 0, success |-> FALSE, completed |-> FALSE, text |-> NULL, queue_id |-> 0]

\* ------------------------------------------------------------------ Init
\* One draft (id 1) as the pipeline created it; id 2 addresses no draft.
InitTables ==
  /\ drafts = [d \in {1} |-> NewDraft]
  /\ versions = <<>>
  /\ history = EmptyBag
  /\ procs = [p \in Procs |-> Idle]
  /\ response = [op |-> "none", id |-> 0, code |-> 0]
  /\ okOps = [d \in DraftIds |-> 0]
  /\ queue = <<>>
  /\ notifyFile = NoNotification
  /\ imessage_drafts = [m \in {1} |-> NewImessageDraft]
  /\ polled = NoPoll
  /\ served = 0
  /\ emails = [e \in {1} |-> NewEmail]
  /\ now = 0
  /\ page = NoPage
  /\ run = NoRun

InitStore == InitTables /\ scored = Unscored

\* the driver's build enforces foreign keys by default
Init == InitStore /\ foreignKeys = TRUE

\* either setting of PRAGMA foreign_keys
InitAny == InitStore /\ foreignKeys \in BOOLEAN

\* NextResponse.json({ success, action, id }, { status })
Reply(rq, code) == [op |-> rq.op, id |-> rq.id, code |-> code]

\* the model's bounds, as guards on the requests offered
RoomInHistory == BagCardinality(history) < MaxHistory
RoomInVersions == \A d \in DOMAIN drafts : drafts[d].total_versions < MaxVersions

\* ------------------------------------------- Spec: one action per handler
\* try { ... } catch: the handler runs to its response
Serve(rq) ==
  LET r == Run(Db, rq)
  IN  /\ drafts' = r.db.drafts
      /\ versions' = r.db.versions
      /\ history' = r.db.history
      /\ response' = Reply(rq, r.code)
      /\ okOps' = IF r.code = 200 /\ r.db # Db THEN [okOps EXCEPT ![rq.id] = @ + 1] ELSE okOps
      /\ notifyFile' = r.db.notify

Handle(rq) ==
  /\ Serve(rq)
  /\ UNCHANGED <<foreignKeys, procs, queue, imessage_drafts, polled, served, pipeline, page, run>>

PATCH_approve(id) == RoomInHistory /\ Handle(Request("approve", id, NULL, 0, 0))

PATCH_reject(id) == RoomInHistory /\ Handle(Request("reject", id, NULL, 0, 0))

PATCH_edit(id, text) == RoomInHistory /\ Handle(Request("edit", id, text, 0, 0))

PATCH_sent(id) == RoomInHistory /\ Handle(Request("sent", id, NULL, 0, 0))

PATCH_rate(id, score) == RoomInHistory /\ Handle(Request("rate", id, NULL, score, 0))

PATCH_save_version(id) == RoomInVersions /\ Handle(Request("save_version", id, NULL, 0, 0))

PATCH_restore_version(id, v) ==
  RoomInHistory /\ Handle(Request("restore_version", id, NULL, 0, v))

PATCH_unknown(id) == Handle(Request("unknown", id, NULL, 0, 0))

POST_ai_edit(id, text) ==
  RoomInHistory /\ RoomInVersions /\ Handle(Request("ai_edit", id, text, 0, 0))

\* requests that address an existing draft
Next ==
  \/ \E id \in DOMAIN drafts : PATCH_approve(id)
  \/ \E id \in DOMAIN drafts : PATCH_reject(id)
  \/ \E id \in DOMAIN drafts, text \in Texts : PATCH_edit(id, text)
  \/ \E id \in DOMAIN drafts : PATCH_sent(id)
  \/ \E id \in DOMAIN drafts, score \in Scores : PATCH_rate(id, score)
  \/ \E id \in DOMAIN drafts : PATCH_save_version(id)
  \/ \E id \in DOMAIN drafts, v \in 1..MaxVersions : PATCH_restore_version(id, v)
  \/ \E id \in DOMAIN drafts : PATCH_unknown(id)
  \/ \E id \in DOMAIN drafts, text \in Texts : POST_ai_edit(id, text)

Spec == Init /\ [][Next]_vars

\* requests that address any id, with or without a draft
NextAny ==
  \/ \E id \in DraftIds : PATCH_approve(id)
  \/ \E id \in DraftIds : PATCH_reject(id)
  \/ \E id \in DraftIds, text \in Texts : PATCH_edit(id, text)
  \/ \E id \in DraftIds : PATCH_sent(id)
  \/ \E id \in DraftIds, score \in Scores : PATCH_rate(id, score)
  \/ \E id \in DraftIds : PATCH_save_version(id)
  \/ \E id \in DraftIds, v \in 1..MaxVersions : PATCH_restore_version(id, v)
  \/ \E id \in DraftIds : PATCH_unknown(id)
  \/ \E id \in DraftIds, text \in Texts : POST_ai_edit(id, text)

SpecAny == InitAny /\ [][NextAny]_vars

\* the history-writing actions, addressed to any id, on the store as the
\* driver opens it
NextMissing ==
  \/ \E id \in DraftIds : PATCH_approve(id)
  \/ \E id \in DraftIds : PATCH_reject(id)
  \/ \E id \in DraftIds, text \in Texts : PATCH_edit(id, text)
  \/ \E id \in DraftIds : PATCH_sent(id)
  \/ \E id \in DraftIds, score \in Scores : PATCH_rate(id, score)

SpecMissing == Init /\ [][NextMissing]_vars

\* the ai-edit POST when the store refuses the version row (busy, full, ...)
POST_ai_edit_insert_fails(id, text) ==
  /\ RoomInHistory
  /\ RoomInVersions
  /\ Handle([Request("ai_edit", id, text, 0, 0) EXCEPT !.insert_fails = TRUE])

\* save_version when the store refuses the version row
PATCH_save_version_insert_fails(id) ==
  /\ RoomInVersions
  /\ Handle([Request("save_version", id, NULL, 0, 0) EXCEPT !.insert_fails = TRUE])

\* Next, and version inserts that may fail
NextFault ==
  \/ Next
  \/ \E id \in DOMAIN drafts : PATCH_save_version_insert_fails(id)
  \/ \E id \in DOMAIN drafts, text \in Texts : POST_ai_edit_insert_fails(id, text)

SpecFault == Init /\ [][NextFault]_vars

\* --------------------------- SpecConc: processes sharing the store
\* Each process serves one request at a time and runs its statements one by
\* one; the store commits after every statement, so the other process may
\* read or write between any two of them.  okOps is not kept here.
ConcRequests ==
  {Request(op, 1, NULL, 0, 0) : op \in {"approve", "reject", "sent", "save_version"}}
    \cup {Request("edit", 1, "t1", 0, 0), Request("rate", 1, NULL, 5, 0),
          Request("ai_edit", 1, "t2", 0, 0)}
    \cup {Request("restore_version", 1, NULL, 0, v) : v \in 1..2}

Start(p, rq) ==
  /\ procs[p].op = "idle"
  /\ RoomInHistory
  /\ RoomInVersions
  /\ procs' = [procs EXCEPT ![p] = rq]
  /\ UNCHANGED <<drafts, versions, history, foreignKeys, response, okOps, review, pipeline, page, run>>

Step(p) ==
  /\ procs[p].op # "idle"
  /\ LET r == StepOnce(Db, procs[p])
     IN  /\ drafts' = r.db.drafts
         /\ versions' = r.db.versions
         /\ history' = r.db.history
         /\ notifyFile' = r.db.notify
         /\ IF r.code = 0
            THEN procs' = [procs EXCEPT ![p] = r.rq] /\ UNCHANGED response
            ELSE procs' = [procs EXCEPT ![p] = Idle] /\ response' = Reply(r.rq, r.code)
  /\ UNCHANGED <<foreignKeys, okOps, queue, imessage_drafts, polled, served, pipeline, page, run>>

NextConc ==
  \/ \E p \in Procs, rq \in ConcRequests : Start(p, rq)
  \/ \E p \in Procs : Step(p)

SpecConc == Init /\ [][NextConc]_vars

\* ------------------------------------------------ PATCH /api/imessages
ImessageIds == {0, 1, 2}               \* 0: no id in the body; 2: no such draft
ImessageActions == {"approve", "reject", "sent", "edit", "unknown", ""}

\* UPDATE imessage_drafts SET ... WHERE id = ?  (no row: nothing happens)
UpdateImessageDraft(rows, id, cols) ==
  IF id \in DOMAIN rows THEN [rows EXCEPT ![id] = SetCols(@, cols)] ELSE rows

\* the whole handler: the rows it leaves and the status it answers
ImessagePatch(rows, id, action, text) ==
  CASE id = 0 \/ action = "" -> [rows |-> rows, code |-> 400]   \* !id || !action
    [] action = "approve" ->
         [rows |-> UpdateImessageDraft(rows, id, [status |-> "approved", approved_at |-> SET]),
          code |-> 200]
    [] action = "reject" ->
         [rows |-> UpdateImessageDraft(rows, id, [status |-> "rejected", rejected_at |-> SET]),
          code |-> 200]
    [] action = "sent" ->
         [rows |-> UpdateImessageDraft(rows, id, [status |-> "sent", sent_at |-> SET]),
          code |-> 200]
    [] action = "edit" ->
         IF text = NULL \/ text = ""                              \* if (!body.text)
         THEN [rows |-> rows, code |-> 400]
         ELSE [rows |-> UpdateImessageDraft(rows, id, [draft_text |-> text]), code |-> 200]
    [] OTHER -> [rows |-> rows, code |-> 400]                     \* Unknown action

\* ------------------------------------- POST /api/drafts/[id]/ai-edit (queue)
MaxJobs == 2                           \* requests are queued while the queue is shorter
Instructions == {"", "i1"}             \* "" stands for a missing or empty instruction
SlackChannel == "repo-email-automation"

\* SELECT * FROM ai_edit_queue WHERE id = ?
JobsWithId(q, qid) == {i \in 1..Len(q) : q[i].id = qid}

\* variant: only a completed job ends the polling; a failed one reads as pending
PollReplyCompletedOnly(job) ==
  IF job.status = "completed"
  THEN [code |-> 200, success |-> TRUE, completed |-> TRUE, text |-> job.result_text,
        queue_id |-> 0]
  ELSE [code |-> 200, success |-> TRUE, completed |-> FALSE, text |-> NULL, queue_id |-> 0]

\* the response to a poll of job row
PollReply(job) ==
  CASE job.status = "completed" ->
         [code |-> 200, success |-> TRUE, completed |-> TRUE, text |-> job.result_text,
          queue_id |-> 0]
    [] job.status = "failed" ->
         [code |-> 200, success |-> FALSE, completed |-> TRUE, text |-> NULL, queue_id |-> 0]
    [] OTHER ->
         [code |-> 200, success |-> TRUE, completed |-> FALSE, text |-> NULL, queue_id |-> 0]

ErrorReply(code) ==
  [code |-> code, success |-> FALSE, completed |-> FALSE, text |-> NULL, queue_id |-> 0]

\* FROM draft_responses d JOIN emails e ON d.email_id = e.id WHERE d.id = ?
DraftWithEmail(id) == id \in DOMAIN drafts /\ drafts[id].email_id \in DOMAIN emails

\* result.lastInsertRowid of an AUTOINCREMENT table from which nothing is deleted
NextQueueId(q) == Len(q) + 1

\* INSERT INTO ai_edit_queue (..., status, ...) VALUES (..., 'pending', ...)
NewJob(q, id, instruction) ==
  [id |-> NextQueueId(q), draft_id |-> id, instruction |-> instruction,
   current_draft |-> Live(drafts[id]), status |-> "pending", result_text |-> NULL]

\* what /api/notify-slack writes to data/slack_notify.json
Notification(channel, qid) == [channel |-> channel, queue_id |-> qid]

\* variant: the request fails, and queues nothing, when the notification fails
QueuePostNotifyFirst(id, instruction, poll_queue_id, delivered) ==
  IF poll_queue_id # 0
  THEN /\ polled' = IF JobsWithId(queue, poll_queue_id) = {}
                    THEN ErrorReply(404)
                    ELSE PollReply(queue[CHOOSE i \in JobsWithId(queue, poll_queue_id) : TRUE])
       /\ UNCHANGED <<queue, notifyFile>>
  ELSE IF instruction = ""
  THEN polled' = ErrorReply(400) /\ UNCHANGED <<queue, notifyFile>>
  ELSE IF ~DraftWithEmail(id)
  THEN polled' = ErrorReply(404) /\ UNCHANGED <<queue, notifyFile>>
  ELSE IF ~delivered
  THEN polled' = ErrorReply(500) /\ UNCHANGED <<queue, notifyFile>>
  ELSE /\ queue' = Append(queue, NewJob(queue, id, instruction))
       /\ notifyFile' = Notification(SlackChannel, NextQueueId(queue))
       /\ polled' = [code |-> 200, success |-> TRUE, completed |-> FALSE, text |-> NULL,
                     queue_id |-> NextQueueId(queue)]

\* the whole handler; delivered: whether the fetch of /api/notify-slack succeeded
\* (its failure is caught and ignored)
QueuePost(id, instruction, poll_queue_id, delivered) ==
  IF poll_queue_id # 0
  THEN /\ polled' = IF JobsWithId(queue, poll_queue_id) = {}
                    THEN ErrorReply(404)
                    ELSE PollReply(queue[CHOOSE i \in JobsWithId(queue, poll_queue_id) : TRUE])
       /\ UNCHANGED <<queue, notifyFile>>
  ELSE IF instruction = ""
  THEN polled' = ErrorReply(400) /\ UNCHANGED <<queue, notifyFile>>
  ELSE IF ~DraftWithEmail(id)
  THEN polled' = ErrorReply(404) /\ UNCHANGED <<queue, notifyFile>>
  ELSE /\ queue' = Append(queue, NewJob(queue, id, instruction))
       /\ notifyFile' = IF delivered THEN Notification(SlackChannel, NextQueueId(queue))
                        ELSE notifyFile
       /\ polled' = [code |-> 200, success |-> TRUE, completed |-> FALSE, text |-> NULL,
                     queue_id |-> NextQueueId(queue)]

\* ------------------------------------------------- SpecReview: all endpoints
\* The review surface as a whole: the draft endpoints, the AI-edit queue,
\* the worker that resolves queued jobs, and the iMessage draft endpoint.
MaxServed == 4                         \* requests served in one behaviour of SpecReview

ReviewRequests == ConcRequests \cup {Request("unknown", 1, NULL, 0, 0)}

\* PATCH /api/drafts/[id] and the POST that applies an AI edit
REVIEW_draft(rq) ==
  /\ served < MaxServed
  /\ Serve(rq)
  /\ served' = served + 1
  /\ UNCHANGED <<foreignKeys, procs, queue, imessage_drafts, polled, pipeline, page, run>>

\* POST ai-edit with an instruction: a new edit request
POST_ai_edit_queue(id, instruction) ==
  /\ served < MaxServed
  /\ Len(queue) < MaxJobs
  /\ \E delivered \in BOOLEAN : QueuePost(id, instruction, 0, delivered)
  /\ served' = served + 1
  /\ UNCHANGED <<drafts, versions, history, foreignKeys, procs, response, okOps,
                 imessage_drafts, pipeline, page, run>>

\* POST ai-edit with poll_queue_id: the page asks for the outcome of a job
POST_ai_edit_poll(id, qid) ==
  /\ served < MaxServed
  /\ QueuePost(id, "", qid, FALSE)
  /\ served' = served + 1
  /\ UNCHANGED <<drafts, versions, history, foreignKeys, procs, response, okOps,
                 imessage_drafts, pipeline, page, run>>

\* the worker that consumes a pending job and resolves it
WorkerResolves(i, status, text) ==
  /\ i \in 1..Len(queue)
  /\ queue[i].status = "pending"
  /\ queue' = [queue EXCEPT ![i].status = status,
                            ![i].result_text = IF status = "completed" THEN text ELSE NULL]
  /\ UNCHANGED <<drafts, versions, history, foreignKeys, procs, response, okOps,
                 notifyFile, imessage_drafts, polled, served, pipeline, page, run>>

PATCH_imessage(id, action, text) ==
  /\ served < MaxServed
  /\ LET r == ImessagePatch(imessage_drafts, id, action, text)
     IN  /\ imessage_drafts' = r.rows
         /\ response' = [op |-> "imessage", id |-> id, code |-> r.code]
  /\ served' = served + 1
  /\ UNCHANGED <<drafts, versions, history, foreignKeys, procs, okOps,
                 queue, notifyFile, polled, pipeline, page, run>>

NextReview ==
  \/ \E rq \in ReviewRequests : REVIEW_draft(rq)
  \/ \E id \in DraftIds, instruction \in Instructions : POST_ai_edit_queue(id, instruction)
  \/ \E id \in DraftIds, qid \in 1..(MaxJobs + 1) : POST_ai_edit_poll(id, qid)
  \/ \E i \in 1..MaxJobs, status \in {"completed", "failed"} : WorkerResolves(i, status, "t2")
  \/ \E id \in ImessageIds, action \in ImessageActions, text \in {NULL, "t1"} :
       PATCH_imessage(id, action, text)

SpecReview == Init /\ [][NextReview]_vars

\* ------------------------------------------------ the drafts page (page.tsx)
\* One user, one browser tab, the page as the only writer of the store.
PageDraft == 1                         \* the draft card the user works on
PageActions == {"approve", "reject", "edit", "sent"}
MaxAttempts == 60                      \* const maxAttempts = 60

\* fetchDraftDetails: the card is clicked, or the re-read started by
\* handleAction arrives; ok: the fetch answered (its failure is caught and logged)
PAGE_fetchDraftDetails(ok) ==
  /\ page' = IF ok /\ PageDraft \in DOMAIN drafts
             THEN [page EXCEPT !.selected = TRUE,
                               !.status = drafts[PageDraft].status,
                               !.sent_at = drafts[PageDraft].sent_at]
             ELSE page
  /\ UNCHANGED <<drafts, versions, history, foreignKeys, procs, response, okOps, review,
                 pipeline, run>>

\* the buttons rendered for the draft as the page shows it
Offered(action) ==
  /\ page.selected
  /\ ~page.actionLoading
  /\ IF action = "sent"
     THEN page.status = "approved" /\ page.sent_at = NULL
     ELSE page.status = "pending"

\* handleAction up to its await: the button is clicked, the PATCH is sent
PAGE_handleAction(action) ==
  /\ Offered(action)
  /\ RoomInHistory
  /\ page' = [page EXCEPT !.actionLoading = TRUE]
  /\ procs' = [procs EXCEPT ![1] = Request(action, PageDraft, IF action = "edit" THEN "t1" ELSE NULL, 0, 0)]
  /\ UNCHANGED <<drafts, versions, history, foreignKeys, response, okOps, review, pipeline, run>>

\* the PATCH is served and handleAction resumes: on success it starts the
\* re-reads (not awaited), and finally sets actionLoading to false
PAGE_actionReturns ==
  /\ page.actionLoading
  /\ Serve(procs[1])
  /\ procs' = [procs EXCEPT ![1] = Idle]
  /\ page' = [page EXCEPT !.actionLoading = FALSE]
  /\ UNCHANGED <<foreignKeys, queue, imessage_drafts, polled, served, pipeline, run>>

NextPage ==
  \/ \E ok \in BOOLEAN : PAGE_fetchDraftDetails(ok)
  \/ \E action \in PageActions : PAGE_handleAction(action)
  \/ PAGE_actionReturns

SpecPage == Init /\ [][NextPage]_vars

\* handleAiEdit up to the first setTimeout; ok: the fetch answered (a throw is
\* caught: alert, setAiLoading(false)); the button is disabled while aiLoading
PAGE_handleAiEdit(ok, delivered) ==
  /\ page.selected
  /\ ~page.aiLoading
  /\ Len(queue) < MaxJobs
  /\ IF ok
     THEN /\ QueuePost(PageDraft, "i1", 0, delivered)
          /\ page' = IF polled'.code = 200
                     THEN [page EXCEPT !.aiLoading = TRUE, !.attempts = 0,
                                       !.queueId = polled'.queue_id, !.timer = TRUE]
                     ELSE page
     ELSE UNCHANGED <<queue, notifyFile, polled, page>>
  /\ UNCHANGED <<drafts, versions, history, foreignKeys, procs, response, okOps,
                 imessage_drafts, served, pipeline, run>>

\* pollForResult when its fetch throws: the async function started by
\* setTimeout rejects, and neither branch of its if runs
PollThrows(pg) == [pg EXCEPT !.attempts = @ + 1, !.timer = FALSE]

\* pollForResult after its fetch answered with reply
PollAnswered(pg, reply) ==
  IF reply.completed
  THEN [pg EXCEPT !.attempts = @ + 1, !.timer = FALSE, !.aiLoading = FALSE]
  ELSE IF pg.attempts + 1 < MaxAttempts
  THEN [pg EXCEPT !.attempts = @ + 1, !.timer = TRUE]
  ELSE [pg EXCEPT !.attempts = @ + 1, !.timer = FALSE, !.aiLoading = FALSE]

\* the timer set by handleAiEdit or by the previous poll fires
PAGE_pollForResult(ok) ==
  /\ page.timer
  /\ IF ok
     THEN /\ QueuePost(PageDraft, "", page.queueId, FALSE)
          /\ page' = PollAnswered(page, polled')
     ELSE /\ page' = PollThrows(page)
          /\ UNCHANGED <<queue, notifyFile, polled>>
  /\ UNCHANGED <<drafts, versions, history, foreignKeys, procs, response, okOps,
                 imessage_drafts, served, pipeline, run>>

NextAiPage ==
  \/ \E ok \in BOOLEAN : PAGE_fetchDraftDetails(ok)
  \/ \E ok \in BOOLEAN, delivered \in BOOLEAN : PAGE_handleAiEdit(ok, delivered)
  \/ \E ok \in BOOLEAN : PAGE_pollForResult(ok)
  \/ \E i \in 1..MaxJobs, status \in {"completed", "failed"} : WorkerResolves(i, status, "t2")

\* a pending timer fires: the browser runs the callback of setTimeout
SpecAiPage ==
  /\ Init
  /\ [][NextAiPage]_vars
  /\ WF_vars(\E ok \in BOOLEAN : PAGE_pollForResult(ok))

\* ------------------------------------------------ the ingestion pipeline
\* The pipeline's scripts are not part of the sources; its steps follow the
\* design document, on the tables of schema.sql.
MaxTime == 40                          \* the clock stops here
MaxDrafts == 3                         \* drafts are created while fewer exist
TickMinutes == 10                      \* the clock advances in steps of ten minutes
DedupWindow == 30                      \* minutes: one draft per sender within the window

Tick ==
  /\ now < MaxTime
  /\ now' = now + TickMinutes
  /\ UNCHANGED <<drafts, versions, history, foreignKeys, procs, response, okOps, review,
                 emails, scored, page, run>>

SenderOf(d) == emails[drafts[d].email_id].from_email

\* variant: the window is as short as one tick
DuplicateWindowShort(sender) ==
  \E d \in DOMAIN drafts : SenderOf(d) = sender /\ now - drafts[d].created_at < TickMinutes

\* a draft was created for this sender within the last DedupWindow minutes
DuplicateWindow(sender) ==
  \E d \in DOMAIN drafts : SenderOf(d) = sender /\ now - drafts[d].created_at < DedupWindow

\* id INTEGER PRIMARY KEY AUTOINCREMENT
NextDraftId(rows) == Cardinality(DOMAIN rows) + 1

\* INSERT INTO draft_responses (email_id, draft_text, ...): email_id must name
\* an email (FOREIGN KEY); nothing makes it unique among the drafts
InsertDraft(rows, email_id, at) ==
  [d \in DOMAIN rows \cup {NextDraftId(rows)} |->
     IF d \in DOMAIN rows THEN rows[d]
     ELSE [NewDraft EXCEPT !.email_id = email_id, !.created_at = at]]

\* one email of a batch goes through the rate limiter's gate and, if it
\* passes, gets a draft; otherwise it is skipped (DuplicateWindow)
CreateDraft(e) ==
  /\ Cardinality(DOMAIN drafts) < MaxDrafts
  /\ IF DuplicateWindow(emails[e].from_email)
     THEN /\ response' = [op |-> "DuplicateWindow", id |-> e, code |-> 0]
          /\ UNCHANGED drafts
     ELSE /\ response' = [op |-> "create_draft", id |-> e, code |-> 200]
          /\ drafts' = InsertDraft(drafts, e, now)
  /\ UNCHANGED <<versions, history, foreignKeys, procs, okOps, review, pipeline, page, run>>

\* raw subjects and senders as the providers deliver them, and their normal forms
NormalizeSubject(s) ==
  CASE s \in {"Hello", "hello "} -> "hello"
    [] s \in {"Bye", " BYE"} -> "bye"
    [] OTHER -> s

NormalizeFrom(f) ==
  CASE f \in {"alice", "Alice <ALICE>"} -> "alice"
    [] OTHER -> f

\* timestamp (seconds) rounded to the nearest minute
Bucket(ts) == (ts + 30) \div 60

\* dedupKey: the fingerprint over (normalized subject, normalized from, bucket)
Fingerprint(subject, from, ts) == <<NormalizeSubject(subject), NormalizeFrom(from), Bucket(ts)>>

KeyOf(row) == Fingerprint(row.subject, row.from_email, row.received_at)

\* messages the providers may return, each with its own stable id
RawMessages ==
  { [id |-> 1, subject |-> "Hello", from |-> "alice", ts |-> 0],
    [id |-> 2, subject |-> "hello ", from |-> "Alice <ALICE>", ts |-> 20],
    [id |-> 3, subject |-> "Hello", from |-> "alice", ts |-> 70],
    [id |-> 4, subject |-> "Bye", from |-> "bob", ts |-> 0],
    [id |-> 5, subject |-> " BYE", from |-> "bob", ts |-> 29],
    [id |-> 6, subject |-> "Bye", from |-> NULL, ts |-> 0] }

\* variant: a message is recognised only by its provider id
IsDuplicateById(rows, m) == m.id \in DOMAIN rows

\* the message is already stored: an email with the same fingerprint exists
IsDuplicate(rows, m) == \E e \in DOMAIN rows : KeyOf(rows[e]) = Fingerprint(m.subject, m.from, m.ts)

MaxEmails == 4                         \* messages are ingested while fewer emails are stored

\* INSERT INTO emails: id is the PRIMARY KEY
InsertEmail(rows, m) ==
  [e \in DOMAIN rows \cup {m.id} |->
     IF e \in DOMAIN rows THEN rows[e]
     ELSE [subject |-> m.subject, from_email |-> NormalizeFrom(m.from),
           received_at |-> m.ts, is_unread |-> TRUE, updated_at |-> AtInsert]]

\* Normalizer and Deduplicator on one raw message: a message without a
\* from-address is rejected (ValidationError), one whose fingerprint is
\* stored is dropped, any other is persisted
Ingest(m) ==
  /\ Cardinality(DOMAIN emails) < MaxEmails
  /\ IF m.from = NULL
     THEN response' = [op |-> "ValidationError", id |-> m.id, code |-> 0] /\ UNCHANGED emails
     ELSE IF IsDuplicate(emails, m)
     THEN response' = [op |-> "duplicate", id |-> m.id, code |-> 0] /\ UNCHANGED emails
     ELSE response' = [op |-> "ingested", id |-> m.id, code |-> 200]
            /\ emails' = InsertEmail(emails, m)
  /\ UNCHANGED <<drafts, versions, history, foreignKeys, procs, okOps, review, now, scored, page, run>>

NextPipeline ==
  \/ Tick
  \/ \E e \in DOMAIN emails : CreateDraft(e)
  \/ \E m \in RawMessages : Ingest(m)

SpecPipeline == Init /\ [][NextPipeline]_vars

\* ------------------------------------- SpecRun: the per-run cap of a batch
\* One invocation of the drafting batch over n eligible emails (each passes
\* the filter and the other gates of the limiter) with cap max_drafts_per_run.
MaxBatch == 5                          \* emails in a batch
MaxCap == 3                            \* values of max_drafts_per_run

StartRun(n, c) ==
  /\ ~run.started
  /\ run' = [NoRun EXCEPT !.started = TRUE, !.max_drafts_per_run = c, !.batch = n]
  /\ response' = [op |-> "run", id |-> n, code |-> 0]
  /\ UNCHANGED <<drafts, versions, history, foreignKeys, procs, okOps, review, pipeline, page>>

\* variant: the gate lets one more draft through
CanGenerateDraftInclusive(generated, cap) == generated <= cap

\* the gate of the limiter: fewer drafts than the cap were generated in this run
CanGenerateDraft(generated, cap) == generated < cap

\* the next email of the batch: refused by the gate (RunCapExceeded: a skip
\* record), or handed to the generation backend; ok: the call succeeded and
\* the draft was created (a failed call is recorded and the batch goes on)
ProcessEmail(ok) ==
  /\ run.started
  /\ run.processed < run.batch
  /\ IF ~CanGenerateDraft(run.generated, run.max_drafts_per_run)
     THEN /\ run' = [run EXCEPT !.processed = @ + 1, !.skipped = @ + 1]
          /\ response' = [op |-> "RunCapExceeded", id |-> run.processed + 1, code |-> 0]
     ELSE IF ok
     THEN /\ run' = [run EXCEPT !.processed = @ + 1, !.generated = @ + 1]
          /\ response' = [op |-> "create_draft", id |-> run.processed + 1, code |-> 200]
     ELSE /\ run' = [run EXCEPT !.processed = @ + 1, !.failed = @ + 1]
          /\ response' = [op |-> "generation_failed", id |-> run.processed + 1, code |-> 500]
  /\ UNCHANGED <<drafts, versions, history, foreignKeys, procs, okOps, review, pipeline, page>>

NextRun ==
  \/ \E n \in 0..MaxBatch, c \in 1..MaxCap : StartRun(n, c)
  \/ \E ok \in BOOLEAN : ProcessEmail(ok)

SpecRun == Init /\ [][NextRun]_vars

\* ------------------------------------------ SpecEmails: POST /api/emails-db
EmailActions == {"mark_read", "mark_unread", "archive"}   \* "archive": not an action of the route
EmailIds == {m.id : m \in RawMessages}

\* variant: the UPDATE has no WHERE clause
UpdateEmailAll(rows, id, cols) == [e \in DOMAIN rows |-> SetCols(rows[e], cols)]

\* UPDATE emails SET ... WHERE id = ?  (no row: nothing happens)
UpdateEmail(rows, id, cols) ==
  IF id \in DOMAIN rows THEN [rows EXCEPT ![id] = SetCols(@, cols)] ELSE rows

\* SET is_unread = 0 | 1, updated_at = CURRENT_TIMESTAMP
MarkCols(unread) == [is_unread |-> unread, updated_at |-> SET]

\* if (action === 'mark_read') ... else if (action === 'mark_unread') ...
EmailsDbPost(rows, action, emailId) ==
  CASE action = "mark_read" -> UpdateEmail(rows, emailId, MarkCols(FALSE))
    [] action = "mark_unread" -> UpdateEmail(rows, emailId, MarkCols(TRUE))
    [] OTHER -> rows

\* the handler answers { success: true, action, emailId } whatever the action
POST_emails_db(action, emailId) ==
  /\ emails' = EmailsDbPost(emails, action, emailId)
  /\ response' = [op |-> action, id |-> emailId, code |-> 200]
  /\ UNCHANGED <<drafts, versions, history, foreignKeys, procs, okOps, review, now, scored, page, run>>

\* the inbox: messages arrive and the page marks them
NextEmails ==
  \/ \E m \in RawMessages : Ingest(m)
  \/ \E action \in EmailActions, emailId \in EmailIds : POST_emails_db(action, emailId)

SpecEmails == Init /\ [][NextEmails]_vars

\* ------------------------------------------------------ Priority Scorer
Signals == {"vip", "urgent_keyword", "important", "unread", "attachments", "recent",
            "spam", "old", "newsletter"}

\* an email is not both received within the last hour and older than 7 days
SignalSets == {S \in SUBSET Signals : ~({"recent", "old"} \subseteq S)}

Baseline == 50                         \* the neutral score every email starts from

Contribution(sig) ==
  CASE sig = "vip" -> 30
    [] sig = "urgent_keyword" -> 20
    [] sig = "important" -> 15
    [] sig = "unread" -> 10
    [] sig = "attachments" -> 5
    [] sig = "recent" -> 15
    [] sig = "spam" -> 0 - 30
    [] sig = "old" -> 0 - 20
    [] sig = "newsletter" -> 0 - 15

RECURSIVE SumContributions(_)
SumContributions(S) ==
  IF S = {} THEN 0
  ELSE LET sig == CHOOSE x \in S : TRUE IN Contribution(sig) + SumContributions(S \ {sig})

RawScore(S) == Baseline + SumContributions(S)

\* variant: the sum is stored as it is
ClampNone(x) == x

\* result clamped to [0, 100]
Clamp(x) == IF x < 0 THEN 0 ELSE IF x > 100 THEN 100 ELSE x

PriorityScore(S) == Clamp(RawScore(S))

\* urgent >= 80, normal 40-79, low < 40
Category(score) ==
  IF score >= 80 THEN "urgent" ELSE IF score >= 40 THEN "normal" ELSE "low"

InitScore ==
  /\ InitTables
  /\ foreignKeys = TRUE
  /\ \E S \in SignalSets : scored = [signals |-> S, score |-> -1, category |-> NULL]

ScoreEmail ==
  /\ scored.score = -1
  /\ scored' = [scored EXCEPT !.score = PriorityScore(scored.signals),
                              !.category = Category(PriorityScore(scored.signals))]
  /\ UNCHANGED <<drafts, versions, history, foreignKeys, procs, response, okOps, review,
                 emails, now, page, run>>

NextScore == ScoreEmail

SpecScore == InitScore /\ [][NextScore]_vars

\* ================================================================ claims

\* rows of draft_versions that belong to draft d, in insertion order
VersionsOf(vs, d) == SelectSeq(vs, LAMBDA r : r.draft_id = d)

RECURSIVE SumCopies(_, _)
SumCopies(S, B) ==
  IF S = {} THEN 0
  ELSE LET e == CHOOSE x \in S : TRUE IN CopiesIn(e, B) + SumCopies(S \ {e}, B)

\* number of draft_approval_history rows of draft d
HistCount(d) == SumCopies({e \in BagToSet(history) : e.draft_id = d}, history)

Logged(d, action) == CopiesIn([draft_id |-> d, action |-> action], history) > 0

Edges == {<<"pending", "approved">>, <<"pending", "rejected">>, <<"approved", "sent">>}

\* a step that is a successful response of handler op for draft id
Ok(op, id) == response' = [op |-> op, id |-> id, code |-> 200]

AiEditOk(id) == Ok("ai_edit", id) /\ \E t \in Texts : POST_ai_edit(id, t)

SaveVersionOk(id) == Ok("save_version", id) /\ PATCH_save_version(id)

RestoreOk(id, v) == Ok("restore_version", id) /\ PATCH_restore_version(id, v)

\* C1: every change of Draft.status follows pending->approved,
\* pending->rejected or approved->sent; any other transition is refused and
\* leaves status unchanged.
C1_StatusFollowsEdges ==
  [][\A d \in DOMAIN drafts :
       drafts'[d].status # drafts[d].status
         => <<drafts[d].status, drafts'[d].status>> \in Edges]_vars

\* C2: the number of history events of a draft equals the number of
\* successful state-changing operations applied to it.
C2_OneEventPerOperation == \A d \in DraftIds : HistCount(d) = okOps[d]

\* C3: no process sharing the store observes a draft row updated by an
\* operation whose history event is still missing, nor a version row without
\* the matching total_versions increment, and two save_version / AI-edit
\* operations on one draft never act on the same read of total_versions.
C3_AtomicOperations ==
  /\ \A d \in DOMAIN drafts :
       /\ drafts[d].status = "approved" => Logged(d, "approved")
       /\ drafts[d].status = "rejected" => Logged(d, "rejected")
       /\ drafts[d].status = "sent" => Logged(d, "sent")
       /\ drafts[d].feedback_score # NULLINT => Logged(d, "rated")
       /\ drafts[d].edited_text # NULL => Logged(d, "edited") \/ Logged(d, "ai_edited")
       /\ drafts[d].current_version # 1 => Logged(d, "restored")
       /\ Len(VersionsOf(versions, d)) + 1 = drafts[d].total_versions
  /\ \A p, q \in Procs :
       (/\ p # q
        /\ procs[p].op \in {"save_version", "ai_edit"}
        /\ procs[q].op \in {"save_version", "ai_edit"}
        /\ procs[p].id = procs[q].id
        /\ procs[p].step = 2
        /\ procs[q].step = 2)
         => procs[p].cur_tv # procs[q].cur_tv

\* C4: the version numbers recorded for a draft are exactly 1..k, none used
\* twice and none skipped.
C4_VersionNumbersContiguous ==
  \A d \in DraftIds :
    \A i \in 1..Len(VersionsOf(versions, d)) : VersionsOf(versions, d)[i].version_number = i

C4_Witness ==
  /\ Len(VersionsOf(versions, 1)) >= 2
  /\ \E i \in 1..Len(versions) : versions[i].created_by = "user"
  /\ \E i \in 1..Len(versions) : versions[i].created_by = "ai-edit"

\* C5: every edit of a pending draft adds one version, so n edits yield
\* totalVersions = n + 1 and rows numbered 1..n, and the live text is the
\* text of the last edit.
C5_EditAddsVersion ==
  [][\A id \in DOMAIN drafts, t \in Texts \ {""} :
       (/\ drafts[id].status = "pending"
        /\ \/ Ok("edit", id) /\ PATCH_edit(id, t)
           \/ Ok("ai_edit", id) /\ POST_ai_edit(id, t))
         => /\ drafts'[id].total_versions = drafts[id].total_versions + 1
            /\ Len(VersionsOf(versions', id)) = Len(VersionsOf(versions, id)) + 1
            /\ Live(drafts'[id]) = t]_vars

\* C6: save_version / regeneration stores the snapshot under version number
\* currentVersion and then increases totalVersions and currentVersion by 1.
C6_SnapshotAtCurrentVersion ==
  [][\A id \in DOMAIN drafts :
       (SaveVersionOk(id) \/ AiEditOk(id))
         => /\ Len(versions') = Len(versions) + 1
            /\ versions'[Len(versions')].version_number = drafts[id].current_version
            /\ drafts'[id].total_versions = drafts[id].total_versions + 1
            /\ drafts'[id].current_version = drafts[id].current_version + 1]_vars

\* C7: the text stored in the snapshot is the draft's live text at that
\* moment (edited_text when an edit exists, otherwise draft_text).
C7_SnapshotIsLiveText ==
  [][\A id \in DOMAIN drafts :
       (SaveVersionOk(id) \/ AiEditOk(id))
         => /\ Len(versions') = Len(versions) + 1
            /\ versions'[Len(versions')].draft_text = Live(drafts[id])]_vars

\* C8: after a successful restore_version(v) the live text of the draft
\* equals the text of DraftVersion v.
C8_RestoreSetsLiveText ==
  [][\A id \in DOMAIN drafts, v \in 1..MaxVersions :
       RestoreOk(id, v)
         => Live(drafts'[id]) = FirstVersion(versions, id, v).draft_text]_vars

\* C9 (as claimed): restore_version leaves currentVersion and totalVersions
\* each greater than or equal to their values before it.
C9_RestoreNeverDecreases ==
  [][\A id \in DOMAIN drafts, v \in 1..MaxVersions :
       RestoreOk(id, v)
         => /\ drafts'[id].current_version >= drafts[id].current_version
            /\ drafts'[id].total_versions >= drafts[id].total_versions]_vars

\* C9 (amended): restore_version(v) leaves totalVersions unchanged and sets
\* currentVersion to v, which may be lower than its value before.
C9_RestoreKeepsTotal ==
  [][\A id \in DOMAIN drafts, v \in 1..MaxVersions :
       RestoreOk(id, v)
         => /\ drafts'[id].total_versions = drafts[id].total_versions
            /\ drafts'[id].current_version = v]_vars

C9_Witness ==
  /\ response = [op |-> "restore_version", id |-> 1, code |-> 200]
  /\ drafts[1].current_version = 1
  /\ drafts[1].total_versions = 3
  /\ Logged(1, "restored") /\ CopiesIn([draft_id |-> 1, action |-> "restored"], history) >= 2

\* C10: draft_text always equals the generation output stored at creation.
C10_DraftTextImmutable == \A d \in DOMAIN drafts : drafts[d].draft_text = Generated

C10_Witness ==
  /\ response = [op |-> "restore_version", id |-> 1, code |-> 200]
  /\ drafts[1].edited_text \in Texts \ {""}
  /\ Logged(1, "ai_edited")

Rated(d) == [draft_id |-> d, action |-> "rated"]

\* C11: a rate operation whose score is not in 1..5 is rejected as invalid
\* input and leaves feedbackScore and the history unchanged; with a score in
\* 1..5 on a sent draft it succeeds, stores the score and appends exactly one
\* 'rated' event.
C11_RateValidatesScore ==
  [][\A id \in DOMAIN drafts, score \in Scores :
       (response'.op = "rate" /\ PATCH_rate(id, score))
         => IF score \in 1..5
            THEN drafts[id].status = "sent"
                   => /\ response'.code = 200
                      /\ drafts'[id].feedback_score = score
                      /\ CopiesIn(Rated(id), history') = CopiesIn(Rated(id), history) + 1
                      /\ BagCardinality(history') = BagCardinality(history) + 1
            ELSE /\ response'.code = 400
                 /\ drafts'[id].feedback_score = drafts[id].feedback_score
                 /\ history' = history]_vars

\* C12: feedbackScore is only ever written while status is approved or sent;
\* a rate operation on a pending draft records no score.
C12_RateOnlyAfterPending ==
  [][\A d \in DOMAIN drafts :
       drafts'[d].feedback_score # drafts[d].feedback_score
         => drafts[d].status \in {"approved", "sent"}]_vars

SentRequest(id) == Request("sent", id, NULL, 0, 0)

\* C13 (as claimed): the only effects of any accepted action are updates to
\* stored draft, history and queue records, and 'sent' only records sentAt,
\* sentVia and status = sent.
C13_OnlyStoredRecords ==
  [][/\ notifyFile' = notifyFile
     /\ REVIEW_draft(SentRequest(1))
          => drafts'[1] = SetCols(drafts[1], SentCols) /\ versions' = versions]_vars

\* C13 (amended): no action sends anything to a correspondent; the only
\* outbound effect is the Slack notification request that an AI-edit enqueue
\* leaves for the operator's channel, and the 'sent' actions of both draft
\* endpoints only record the sent columns (plus the 'sent' history event).
C13_NoTransmission ==
  [][/\ notifyFile' # notifyFile
          => /\ Len(queue') = Len(queue) + 1
             /\ notifyFile' = Notification(SlackChannel, queue'[Len(queue')].id)
     /\ REVIEW_draft(SentRequest(1))
          => /\ drafts'[1] = SetCols(drafts[1], SentCols)
             /\ versions' = versions
             /\ history' = history (+) SetToBag({[draft_id |-> 1, action |-> "sent"]})
             /\ UNCHANGED <<queue, imessage_drafts>>
     /\ PATCH_imessage(1, "sent", NULL)
          => /\ imessage_drafts'[1] =
                  SetCols(imessage_drafts[1], [status |-> "sent", sent_at |-> SET])
             /\ UNCHANGED <<drafts, versions, history, queue>>]_vars

C13_Witness ==
  /\ drafts[1].status = "sent"
  /\ drafts[1].sent_via = "manual"
  /\ imessage_drafts[1].status = "sent"
  /\ notifyFile.channel = SlackChannel

HistoryActions == {"approved", "rejected", "edited", "sent", "rated", "restored"}

\* C14: every history event ever written has an action in {approved,
\* rejected, edited, sent, rated, restored}, AI edits included.
C14_HistoryActionsKnown == \A e \in BagToSet(history) : e.action \in HistoryActions

\* C15: draft_versions is append-only: every operation leaves the rows
\* written before it unchanged and in place.
C15_VersionsAppendOnly ==
  [][/\ Len(versions') >= Len(versions)
     /\ \A i \in 1..Len(versions) : versions'[i] = versions[i]]_vars

C15_Witness ==
  /\ response = [op |-> "restore_version", id |-> 1, code |-> 200]
  /\ drafts[1].current_version = 1
  /\ Len(versions) >= 2
  /\ drafts[1].status = "sent"
  /\ drafts[1].feedback_score = 5

\* C16: a DraftVersion numbered 1, if there is one, holds the raw generation
\* output the draft was created with.
C16_VersionOneIsGeneration ==
  \A i \in 1..Len(versions) :
    versions[i].version_number = 1 => versions[i].draft_text = Generated

C16_Witness ==
  /\ \E i \in 1..Len(versions) :
       versions[i].version_number = 1 /\ versions[i].created_by = "ai-edit"
  /\ \E i \in 1..Len(versions) : versions[i].created_by = "user"
  /\ drafts[1].edited_text = "t2"
  /\ Logged(1, "edited") /\ Logged(1, "restored")

QueueIds(q) == {q[i].id : i \in 1..Len(q)}

JobWithId(q, qid) == q[CHOOSE i \in 1..Len(q) : q[i].id = qid]

\* C17: an AI-edit request is enqueued as a job with a fresh id and status
\* pending; a poll of that id reports completed = false while the job is
\* pending, completed = true exactly when its status is completed or failed,
\* and returns text only for a completed job (a failed job gives an error
\* and no text).
C17_QueueAndPoll ==
  [][/\ \A id \in DraftIds :
          (POST_ai_edit_queue(id, "i1") /\ polled'.code = 200)
            => /\ Len(queue') = Len(queue) + 1
               /\ queue'[Len(queue')].id \notin QueueIds(queue)
               /\ queue'[Len(queue')].id = polled'.queue_id
               /\ queue'[Len(queue')].status = "pending"
               /\ queue'[Len(queue')].draft_id = id
               /\ \A i \in 1..Len(queue) : queue'[i] = queue[i]
     /\ \A id \in DraftIds, qid \in QueueIds(queue) :
          POST_ai_edit_poll(id, qid)
            => LET job == JobWithId(queue, qid)
               IN  /\ polled'.completed <=> job.status \in {"completed", "failed"}
                   /\ job.status = "pending" => ~polled'.completed
                   /\ polled'.text # NULL => job.status = "completed"
                   /\ job.status = "completed" => polled'.text = job.result_text
                   /\ job.status = "failed" => ~polled'.success /\ polled'.text = NULL]_vars

C17_Witness ==
  /\ Len(queue) = 2
  /\ queue[1].status = "failed"
  /\ queue[2].status = "completed"
  /\ polled = [code |-> 200, success |-> TRUE, completed |-> TRUE, text |-> "t2",
               queue_id |-> 0]

\* C18: no two Draft records have the same emailId, whatever sequence of
\* draft creations is attempted for one Email.
C18_OneDraftPerEmail ==
  \A d1, d2 \in DOMAIN drafts : drafts[d1].email_id = drafts[d2].email_id => d1 = d2

\* C19: ingesting a message whose fingerprint equals that of a stored Email
\* creates no second Email record, whichever poll or provider delivers it:
\* the message is dropped and the stored emails stay as they are.
C19_IngestIdempotent ==
  [][/\ \A m \in RawMessages :
          (Ingest(m) /\ m.from # NULL
             /\ \E e \in DOMAIN emails : KeyOf(emails[e]) = Fingerprint(m.subject, m.from, m.ts))
            => emails' = emails
     /\ \A e1, e2 \in DOMAIN emails' : KeyOf(emails'[e1]) = KeyOf(emails'[e2]) => e1 = e2]_vars

C19_Witness ==
  /\ response = [op |-> "duplicate", id |-> 2, code |-> 0]
  /\ DOMAIN emails = {1, 3, 5}

\* C20: priorityScore is an integer in 0..100, the sum of the signals
\* clamped, and priorityCategory is urgent iff score >= 80, normal iff
\* 40 <= score <= 79, low iff score < 40.
C20_ScoreClampedAndCategorised ==
  scored.score # -1
    => /\ scored.score \in 0..100
       /\ RawScore(scored.signals) \in 0..100 => scored.score = RawScore(scored.signals)
       /\ RawScore(scored.signals) > 100 => scored.score = 100
       /\ RawScore(scored.signals) < 0 => scored.score = 0
       /\ scored.category = "urgent" <=> scored.score >= 80
       /\ scored.category = "normal" <=> (40 <= scored.score /\ scored.score <= 79)
       /\ scored.category = "low" <=> scored.score < 40

C20_Witness ==
  /\ scored.score = 80
  /\ scored.signals = {"vip"}
  /\ scored.category = "urgent"

\* operations that write a history event and nothing about versions
EventOps == {"approve", "reject", "edit", "sent", "rate"}

\* operations that are no status change
ContentOps == {"edit", "rate", "save_version", "restore_version", "ai_edit"}

\* C24: restore_version with a version number for which the draft has no
\* version row is answered 404 and leaves the draft's text, current_version,
\* total_versions, the version rows and the history unchanged.
C24_RestoreMissingVersion ==
  [][\A id \in DOMAIN drafts, v \in 1..MaxVersions :
       (/\ response'.op = "restore_version"
        /\ VersionRows(versions, id, v) = {}
        /\ PATCH_restore_version(id, v))
         => /\ response'.code = 404
            /\ drafts' = drafts
            /\ versions' = versions
            /\ history' = history]_vars

C24_Witness ==
  /\ response = [op |-> "restore_version", id |-> 1, code |-> 404]
  /\ Len(VersionsOf(versions, 1)) >= 1
  /\ drafts[1].edited_text = "t1"
  /\ BagCardinality(history) >= 1

\* C28: every history event refers to a draft that exists; approve, reject,
\* edit, sent or rate addressed to an id without a draft appends no history
\* event and is not answered as a success.
C28_HistoryRefersToDraft ==
  /\ \A e \in BagToSet(history) : e.draft_id \in DOMAIN drafts
  /\ (response.id \in DraftIds \ DOMAIN drafts /\ response.op \in EventOps)
       => response.code # 200

C28_Witness ==
  /\ response.id \notin DOMAIN drafts
  /\ response.op = "approve"
  /\ response.code = 500
  /\ BagCardinality(history) >= 1

\* C29: total_versions of a draft equals 1 plus the number of its version
\* rows, also when the insertion of a version row fails.
C29_TotalCountsVersionRows ==
  \A d \in DOMAIN drafts : drafts[d].total_versions = 1 + Len(VersionsOf(versions, d))

\* C30: edit, rate, save_version, restore_version and the AI edit leave
\* status, approved_at, rejected_at, sent_at and sent_via as they were.
C30_ContentOpsKeepStatus ==
  [][\A d \in DOMAIN drafts :
       response'.op \in ContentOps
         => /\ drafts'[d].status = drafts[d].status
            /\ drafts'[d].approved_at = drafts[d].approved_at
            /\ drafts'[d].rejected_at = drafts[d].rejected_at
            /\ drafts'[d].sent_at = drafts[d].sent_at
            /\ drafts'[d].sent_via = drafts[d].sent_via]_vars

C30_Witness ==
  /\ response = [op |-> "ai_edit", id |-> 1, code |-> 200]
  /\ drafts[1].status = "approved"
  /\ drafts[1].approved_at = SET
  /\ Logged(1, "edited")
  /\ Logged(1, "restored")

\* C25: an AI-edit request without an instruction or for an id without a
\* draft is refused and inserts no job; a job is inserted only for an
\* existing draft with a non-empty instruction; when the notification that
\* follows the insert fails, the job stays and the request succeeds.
C25_RejectedRequestQueuesNothing ==
  [][\A id \in DraftIds, instruction \in Instructions :
       POST_ai_edit_queue(id, instruction)
         => /\ (instruction = "" \/ id \notin DOMAIN drafts)
                 => queue' = queue /\ polled'.code \in {400, 404} /\ ~polled'.success
            /\ queue' # queue => instruction # "" /\ id \in DOMAIN drafts
            /\ (instruction # "" /\ id \in DOMAIN drafts)
                 => /\ Len(queue') = Len(queue) + 1
                    /\ queue'[Len(queue')].draft_id = id
                    /\ queue'[Len(queue')].instruction = instruction
                    /\ polled'.code = 200 /\ polled'.success]_vars

C25_Witness ==
  /\ Len(queue) = 1
  /\ queue[1].status = "pending"
  /\ notifyFile = NoNotification
  /\ polled = ErrorReply(404)
  /\ served = 2

\* C23: mark_read and mark_unread change only is_unread and updated_at of the
\* addressed email and leave every other column and every other email as
\* they were; an unrecognised action changes nothing; no email is deleted.
C23_OnlyReadFlagChanges ==
  [][/\ DOMAIN emails \subseteq DOMAIN emails'
     /\ \A action \in EmailActions, emailId \in EmailIds :
          POST_emails_db(action, emailId)
            => /\ DOMAIN emails' = DOMAIN emails
               /\ \A e \in DOMAIN emails \ {emailId} : emails'[e] = emails[e]
               /\ emailId \in DOMAIN emails
                    => /\ \A c \in DOMAIN emails[emailId] \ {"is_unread", "updated_at"} :
                            emails'[emailId][c] = emails[emailId][c]
                       /\ action = "mark_read" => ~emails'[emailId].is_unread
                       /\ action = "mark_unread" => emails'[emailId].is_unread
               /\ action \notin {"mark_read", "mark_unread"} => emails' = emails]_vars

C23_Witness ==
  /\ Cardinality(DOMAIN emails) >= 2
  /\ emails[1] = [NewEmail EXCEPT !.is_unread = FALSE, !.updated_at = SET]
  /\ \E e \in DOMAIN emails : emails[e].is_unread /\ emails[e].updated_at = AtInsert
  /\ response = [op |-> "mark_read", id |-> 1, code |-> 200]

\* C26: after handleAiEdit started an AI edit the page eventually leaves the
\* loading state, whether the job completes, fails, a poll request itself
\* fails, or 60 polls pass; a request is never polled more than 60 times.
C26_LoadingEnds ==
  /\ [](page.attempts <= MaxAttempts)
  /\ (page.aiLoading ~> ~page.aiLoading)

\* C27: every status change the drafts page issues follows
\* pending->approved, pending->rejected or approved->sent, also when the
\* second action is triggered before the page has re-read the draft.
C27_PageFollowsEdges ==
  [][PAGE_actionReturns
       => \/ drafts'[PageDraft].status = drafts[PageDraft].status
          \/ <<drafts[PageDraft].status, drafts'[PageDraft].status>> \in Edges]_vars

Min(a, b) == IF a <= b THEN a ELSE b

Max(a, b) == IF a >= b THEN a ELSE b

\* the batch has been gone through
RunFinished == run.started /\ run.processed = run.batch

\* C21 (as claimed): a run with cap c over n eligible emails ends with
\* exactly min(n, c) drafts and max(n - c, 0) RunCapExceeded skips, and never
\* has more than c successful generation calls.
C21_RunCapExact ==
  /\ run.generated <= run.max_drafts_per_run
  /\ RunFinished
       => /\ run.generated = Min(run.batch, run.max_drafts_per_run)
          /\ run.skipped = Max(run.batch - run.max_drafts_per_run, 0)

\* C21 (amended): with f failed generation calls the run ends with exactly
\* min(n - f, c) drafts and max(n - f - c, 0) RunCapExceeded skips, and never
\* has more than c successful generation calls.
C21_RunCapCounts ==
  /\ run.generated <= run.max_drafts_per_run
  /\ RunFinished
       => /\ run.generated = Min(run.batch - run.failed, run.max_drafts_per_run)
          /\ run.skipped = Max(run.batch - run.failed - run.max_drafts_per_run, 0)

C21_Witness ==
  /\ RunFinished
  /\ run.max_drafts_per_run = 3
  /\ run.batch = 5
  /\ run.generated = 3
  /\ run.skipped = 2
  /\ response.op = "RunCapExceeded"

\* a draft for this sender was created less than DedupWindow minutes ago
RecentDraftFor(sender) ==
  \E d \in DOMAIN drafts : SenderOf(d) = sender /\ now - drafts[d].created_at < DedupWindow

\* C22: an email whose sender got a draft less than W = 30 minutes ago is
\* skipped with DuplicateWindow and creates nothing, whichever email the
\* earlier draft answered; no two drafts of one sender are created less
\* than W minutes apart.
C22_DuplicateWindowSkips ==
  [][/\ \A e \in DOMAIN emails :
          (CreateDraft(e) /\ RecentDraftFor(emails[e].from_email))
            => drafts' = drafts /\ response'.op = "DuplicateWindow"
     /\ \A d1, d2 \in DOMAIN drafts' :
          (d1 # d2 /\ emails[drafts'[d1].email_id].from_email
                        = emails[drafts'[d2].email_id].from_email
                   /\ drafts'[d1].created_at <= drafts'[d2].created_at)
            => drafts'[d2].created_at - drafts'[d1].created_at >= DedupWindow]_vars

C22_Witness ==
  /\ response = [op |-> "DuplicateWindow", id |-> 3, code |-> 0]
  /\ now = 10
  /\ drafts[1].email_id = 1
  /\ drafts[1].created_at = 0
  /\ emails[3].from_email = emails[1].from_email

====
